---- MODULE Spec2Model ----
(***************************************************************************)
(* Multi-speaker TTS app (src/main.py, src/services/elevenlabs.py):        *)
(* segment validation, the generation quota, the per-segment synthesis     *)
(* loop, audio assembly and voice cloning, as a state machine.             *)
(*                                                                         *)
(* Persisted tables (Supabase) and the provider (ElevenLabs) are shared by *)
(* the sessions of one user; st.session_state and the locals of a handler  *)
(* run are per session.                                                    *)
(***************************************************************************)
EXTENDS Integers, Sequences, FiniteSets, TLC

\* ------------------------------------------------------------------ bounds
MaxSegments == 2        \* longest script the editor builds
MaxFiles == 6           \* files written under outputs/tts (uuid4 names drawn)
MaxClones == 2          \* voices the provider creates (voice ids drawn)

\* -------------------------------------------------------- program constants
MAX_VOICES_PER_USER == 1
MAX_GENERATIONS_PER_USER == 5
SILENCE_MS == 300

Sessions == {"A", "B"}

\* Python's None, kept a string so that it compares with voice ids.
None == "<None>"

\* Texts are sequences of characters, so that str.strip() is computed.
Whitespace == {" ", "\t", "\n"}
Texts == {<<>>, <<" ">>, <<"h", "i">>, <<" ", "h", "i", "\n">>}

\* Durations (ms) pydub may decode a clip to.
Durations == {200, 500}

\* The provider's premade voices, as the list-voices endpoint returns them.
LibraryVoices == <<[name |-> "Rachel", voice_id |-> "v_rachel"]>>

VARIABLES
    tts_generations,      \* number of rows of table tts_generations (this user)
    user_voices,          \* voice ids of the rows of table user_voices (this user)
    provider_voices,      \* voice ids that exist at the provider, premade and cloned
    clone_ctr,            \* voice ids the provider has handed out
    uuid_ctr,             \* uuid4 names drawn for files under outputs/tts
    PYDUB_AVAILABLE,      \* whether the pydub import succeeded
    segments,             \* st.session_state.segments, per session
    voices_cached,        \* st.session_state.voices_cached, per session
    last_generated_files, \* st.session_state.last_generated_files, per session
    gen,                  \* locals of the running generation handler, per session
    clone,                \* locals of the running handle_voice_cloning, per session
    deleting              \* locals of the running delete-voice handler, per session

vars == <<tts_generations, user_voices, provider_voices, clone_ctr, uuid_ctr,
          PYDUB_AVAILABLE, segments, voices_cached, last_generated_files, gen, clone,
          deleting>>

persisted == <<tts_generations, user_voices>>

\* ----------------------------------------------------------------- helpers
Truthy(x) == x \notin {None, ""}

RECURSIVE LStrip(_)
LStrip(t) == IF t # <<>> /\ Head(t) \in Whitespace THEN LStrip(Tail(t)) ELSE t

RECURSIVE RStrip(_)
RStrip(t) ==
    IF t # <<>> /\ t[Len(t)] \in Whitespace THEN RStrip(SubSeq(t, 1, Len(t) - 1)) ELSE t

\* str.strip()
Strip(t) == RStrip(LStrip(t))

RECURSIVE SumMs(_)
SumMs(stream) == IF stream = <<>> THEN 0 ELSE Head(stream).ms + SumMs(Tail(stream))

\* ---------------------------------------------------------- session state
create_new_segment == [text |-> <<>>, voice_id |-> None, voice_label |-> "Choose voice"]

\* get_voice_options: (label, voice_id) pairs of the cached voices
get_voice_options(cache) ==
    [k \in DOMAIN cache |->
        [label |-> IF Truthy(cache[k].name) THEN cache[k].name ELSE cache[k].voice_id,
         voice_id |-> cache[k].voice_id]]

\* render_segment's selectbox: the chosen label and the first option carrying it
SelectVoice(seg, options, choice) ==
    LET hits == {k \in DOMAIN options : options[k].label = options[choice].label}
        first == CHOOSE k \in hits : \A j \in hits : k <= j
    IN  [seg EXCEPT !.voice_label = options[choice].label,
                    !.voice_id = options[first].voice_id]

\* render_segment without user input: the selectbox shows the current label when
\* it is an option and the first option otherwise; no options, no change.
RenderSegment(seg, options) ==
    IF options = <<>> THEN seg
    ELSE LET hits == {k \in DOMAIN options : options[k].label = seg.voice_label}
             idx == IF hits # {} THEN CHOOSE k \in hits : \A j \in hits : k <= j ELSE 1
         IN  SelectVoice(seg, options, idx)

RenderAll(segs, cache) ==
    [k \in DOMAIN segs |-> RenderSegment(segs[k], get_voice_options(cache))]

VoiceId(k) == "v_clone_" \o ToString(k)

\* The provider's answer to list-voices: the premade voices of the account, then
\* the cloned ones that exist, oldest first (ctr voice ids were handed out).
RECURSIVE ClonedList(_, _, _)
ClonedList(cloned, k, ctr) ==
    IF k > ctr THEN <<>>
    ELSE (IF VoiceId(k) \in cloned THEN <<[name |-> "Mine", voice_id |-> VoiceId(k)]>>
          ELSE <<>>) \o ClonedList(cloned, k + 1, ctr)

PremadeList(voices) == SelectSeq(LibraryVoices, LAMBDA v : v.voice_id \in voices)

ProviderList(voices, ctr) == PremadeList(voices) \o ClonedList(voices, 1, ctr)

\* ------------------------------------------------------------ persistence
ReadOutcomes == {"ok", "fails"}

\* get_user_generation_count answering that the quota is used up when it cannot
\* count
get_user_generation_count_fail_closed(outcome, rows) ==
    IF outcome = "ok" THEN rows ELSE MAX_GENERATIONS_PER_USER

\* get_user_generation_count / get_user_voice_count: the count, or 0 when there
\* is no client or the query raises.
get_user_generation_count(outcome, rows) == IF outcome = "ok" THEN rows ELSE 0

get_user_voice_count(outcome, rows) == IF outcome = "ok" THEN Cardinality(rows) ELSE 0

\* ------------------------------------------------------------- validation
RECURSIVE ValidateFrom(_, _, _)
ValidateFrom(segs, i, invalid) ==
    IF i > Len(segs) THEN invalid
    ELSE ValidateFrom(segs, i + 1,
            IF Strip(segs[i].text) = <<>> \/ ~Truthy(segs[i].voice_id)
            THEN Append(invalid, i) ELSE invalid)

\* validate_segments returning at the first invalid segment
RECURSIVE ValidateFirstOnly(_, _)
ValidateFirstOnly(segs, i) ==
    IF i > Len(segs) THEN <<>>
    ELSE IF Strip(segs[i].text) = <<>> \/ ~Truthy(segs[i].voice_id) THEN <<i>>
    ELSE ValidateFirstOnly(segs, i + 1)

validate_segments_short_circuit(segs) == ValidateFirstOnly(segs, 1)

\* validate_segments
validate_segments(segs) == ValidateFrom(segs, 1, <<>>)

\* ------------------------------------------------------------------ quota
\* check_generation_limit testing only that some quota remains
check_generation_limit_any_size(current_count, num_segments) ==
    LET remaining == MAX_GENERATIONS_PER_USER - current_count
    IN  IF remaining <= 0 THEN FALSE ELSE TRUE

\* check_generation_limit, given the count it read
check_generation_limit(current_count, num_segments) ==
    LET remaining == MAX_GENERATIONS_PER_USER - current_count
    IN  IF remaining <= 0 THEN FALSE
        ELSE IF num_segments > remaining THEN FALSE
        ELSE TRUE

\* -------------------------------------------------------------- synthesis
FAILED_TO_SAVE == <<"Failed to save file">>

OutputPath(u) == <<"outputs", "tts", ToString(u) \o ".mp3">>

\* The files under outputs/tts: one per uuid drawn, never removed.
OutputFiles(ctr) == {OutputPath(u) : u \in 1..ctr}

SynthOutcomes == {"ok", "convert_raises", "stream_raises"}

\* ElevenLabsManager.convert_and_save_text_to_speech with uuid u: the path it
\* returns. The file at OutputPath(u) is created in every case (when convert
\* raised, open() runs before the unbound `audio` is read).
convert_and_save_text_to_speech(outcome, u) ==
    IF outcome = "ok" THEN OutputPath(u) ELSE FAILED_TO_SAVE

\* generate_single_segment: whether the record is written, and what is returned
SegmentSucceeded(output_path, files) == output_path # <<>> /\ output_path \in files

ErrorText(i) == "Segment " \o ToString(i) \o ": Generation failed"

\* The loop naming a failed segment by its 0-based index
LoopStepZeroBased(g, outcome, save_ok, u) ==
    LET output_path == convert_and_save_text_to_speech(outcome, u)
        ok == SegmentSucceeded(output_path, OutputFiles(u))
        call == [seg |-> g.i, outcome |-> outcome, path |-> output_path]
    IN  [g EXCEPT
            !.calls = Append(@, call),
            !.saves = IF ok THEN Append(@, [seg |-> g.i, ok |-> save_ok]) ELSE @,
            !.generated = IF ok THEN Append(@, output_path) ELSE @,
            !.errors = IF ok THEN @ ELSE Append(@, ErrorText(g.i - 1)),
            !.i = @ + 1]

\* The loop returning a clip only when its record was written
LoopStepClipNeedsRecord(g, outcome, save_ok, u) ==
    LET output_path == convert_and_save_text_to_speech(outcome, u)
        ok == SegmentSucceeded(output_path, OutputFiles(u))
        call == [seg |-> g.i, outcome |-> outcome, path |-> output_path]
    IN  [g EXCEPT
            !.calls = Append(@, call),
            !.saves = IF ok THEN Append(@, [seg |-> g.i, ok |-> save_ok]) ELSE @,
            !.generated = IF ok /\ save_ok THEN Append(@, output_path) ELSE @,
            !.errors = IF ok /\ save_ok THEN @ ELSE Append(@, ErrorText(g.i)),
            !.i = @ + 1]

\* generate_all_segments, one iteration of the loop for segment g.i
LoopStep(g, outcome, save_ok, u) ==
    LET output_path == convert_and_save_text_to_speech(outcome, u)
        ok == SegmentSucceeded(output_path, OutputFiles(u))
        call == [seg |-> g.i, outcome |-> outcome, path |-> output_path]
    IN  [g EXCEPT
            !.calls = Append(@, call),
            !.saves = IF ok THEN Append(@, [seg |-> g.i, ok |-> save_ok]) ELSE @,
            !.generated = IF ok THEN Append(@, output_path) ELSE @,
            !.errors = IF ok THEN @ ELSE Append(@, ErrorText(g.i)),
            !.i = @ + 1]

\* --------------------------------------------------------------- assembly
Silence == [kind |-> "silence", src |-> <<>>, ms |-> SILENCE_MS]

Clip(path, ms) == [kind |-> "clip", src |-> path, ms |-> ms]

\* merge_audio_files' loop: `combined` after the paths from k on
RECURSIVE MergeFrom(_, _, _, _)
MergeFrom(file_paths, ms, k, combined) ==
    IF k > Len(file_paths) THEN combined
    ELSE MergeFrom(file_paths, ms, k + 1,
            IF k = 1 THEN <<Clip(file_paths[k], ms[k])>>
            ELSE combined \o <<Silence>> \o <<Clip(file_paths[k], ms[k])>>)

\* merge_audio_files adding the gap after every clip
RECURSIVE MergeGapAfterEach(_, _, _)
MergeGapAfterEach(file_paths, ms, k) ==
    IF k > Len(file_paths) THEN <<>>
    ELSE <<Clip(file_paths[k], ms[k]), Silence>> \o MergeGapAfterEach(file_paths, ms, k + 1)

merge_audio_files_trailing_gap(file_paths, ms) == MergeGapAfterEach(file_paths, ms, 1)

\* merge_audio_files, ms[k] the duration file_paths[k] decodes to
merge_audio_files(file_paths, ms) == MergeFrom(file_paths, ms, 1, <<>>)

\* os.path.basename: the path of the last component alone
Basename(path) == SubSeq(path, Len(path), Len(path))

\* create_zip_archive writing each file under the path it was given
create_zip_archive_keeps_path(file_paths) ==
    [k \in DOMAIN file_paths |-> [arcname |-> file_paths[k], src |-> file_paths[k]]]

\* create_zip_archive: the entries written, in order
create_zip_archive(file_paths) ==
    [k \in DOMAIN file_paths |->
        [arcname |-> Basename(file_paths[k]), src |-> file_paths[k]]]

NoArtifact == [kind |-> "none", body |-> <<>>]

\* merge_audio_files as the caller sees it: the stream, or a raise (pydub missing,
\* a file that does not decode, an export that fails)
MergeOutcome(available, raises, file_paths, ms) ==
    IF ~available \/ raises THEN [kind |-> "raised", body |-> <<>>]
    ELSE [kind |-> "merged", body |-> merge_audio_files(file_paths, ms)]

\* ------------------------------------------------------------ handler runs
NewGen ==
    [pc |-> "idle", action |-> "none", invalid |-> <<>>,
     count_at_check |-> 0, current_count |-> 0, allowed |-> FALSE, i |-> 0,
     generated |-> <<>>, errors |-> <<>>,
     calls |-> <<>>, saves |-> <<>>, merge_input |-> <<>>, merge_ms |-> <<>>,
     merge_returned |-> FALSE, zip_input |-> <<>>,
     artifact |-> NoArtifact, report |-> "none"]

NewClone ==
    [pc |-> "idle", voice_count |-> 0, count_at_start |-> 0, sample_saved |-> FALSE,
     clone_calls |-> 0, new_voice_id |-> None, record_written |-> FALSE,
     delete_calls |-> <<>>, result |-> "none"]

NewDelete ==
    [pc |-> "idle", voice_id |-> None, provider_ok |-> FALSE,
     db_attempted |-> FALSE, db_ok |-> FALSE]

\* No handler of session s is running: Streamlit runs one script run per session.
Idle(s) ==
    /\ gen[s].pc \in {"idle", "done"}
    /\ clone[s].pc \in {"idle", "done"}
    /\ deleting[s].pc \in {"idle", "done"}

\* A new script run drops the locals of the previous one.
Rerun(s) ==
    /\ gen' = [gen EXCEPT ![s] = NewGen]
    /\ clone' = [clone EXCEPT ![s] = NewClone]
    /\ deleting' = [deleting EXCEPT ![s] = NewDelete]

\* The account's premade voices: the library, or none.
Accounts == {{}, {LibraryVoices[k].voice_id : k \in DOMAIN LibraryVoices}}

Init ==
    /\ tts_generations = 0
    /\ user_voices = {}
    /\ provider_voices \in Accounts
    /\ clone_ctr = 0
    /\ uuid_ctr = 0
    /\ PYDUB_AVAILABLE \in BOOLEAN
    /\ segments = [s \in Sessions |-> <<create_new_segment>>]
    /\ voices_cached = [s \in Sessions |-> <<>>]
    /\ last_generated_files = [s \in Sessions |-> <<>>]
    /\ gen = [s \in Sessions |-> NewGen]
    /\ clone = [s \in Sessions |-> NewClone]
    /\ deleting = [s \in Sessions |-> NewDelete]

\* ----------------------------------------------------------------- editor
\* fetch_voices, then the rerun that renders the segments
FetchVoices(s) ==
    /\ Idle(s)
    /\ \E outcome \in ReadOutcomes :
        LET cache == IF outcome = "ok" THEN ProviderList(provider_voices, clone_ctr)
                     ELSE voices_cached[s]
        IN  /\ voices_cached' = [voices_cached EXCEPT ![s] = cache]
            /\ segments' = [segments EXCEPT ![s] = RenderAll(@, cache)]
    /\ Rerun(s)
    /\ UNCHANGED <<persisted, provider_voices, clone_ctr, uuid_ctr, PYDUB_AVAILABLE,
                   last_generated_files>>

\* sidebar "Add"
AddSegment(s) ==
    /\ Idle(s)
    /\ Len(segments[s]) < MaxSegments
    /\ segments' = [segments EXCEPT
            ![s] = RenderAll(Append(@, create_new_segment), voices_cached[s])]
    /\ Rerun(s)
    /\ UNCHANGED <<persisted, provider_voices, clone_ctr, uuid_ctr, PYDUB_AVAILABLE,
                   voices_cached, last_generated_files>>

\* sidebar "Clear"
ClearSegments(s) ==
    /\ Idle(s)
    /\ segments' = [segments EXCEPT
            ![s] = RenderAll(<<create_new_segment>>, voices_cached[s])]
    /\ Rerun(s)
    /\ UNCHANGED <<persisted, provider_voices, clone_ctr, uuid_ctr, PYDUB_AVAILABLE,
                   voices_cached, last_generated_files>>

\* render_segment's remove button: segments.pop(index)
RemoveSegment(s) ==
    /\ Idle(s)
    /\ \E k \in DOMAIN segments[s] :
        LET segs == segments[s]
            popped == SubSeq(segs, 1, k - 1) \o SubSeq(segs, k + 1, Len(segs))
        IN  segments' = [segments EXCEPT ![s] = RenderAll(popped, voices_cached[s])]
    /\ Rerun(s)
    /\ UNCHANGED <<persisted, provider_voices, clone_ctr, uuid_ctr, PYDUB_AVAILABLE,
                   voices_cached, last_generated_files>>

\* render_segment's text area: the user types a text
EditText(s) ==
    /\ Idle(s)
    /\ \E k \in DOMAIN segments[s], t \in Texts :
        segments' = [segments EXCEPT
            ![s] = RenderAll([@ EXCEPT ![k].text = t], voices_cached[s])]
    /\ Rerun(s)
    /\ UNCHANGED <<persisted, provider_voices, clone_ctr, uuid_ctr, PYDUB_AVAILABLE,
                   voices_cached, last_generated_files>>

\* render_segment's selectbox: the user picks a voice
ChooseVoice(s) ==
    /\ Idle(s)
    /\ LET options == get_voice_options(voices_cached[s])
       IN  \E k \in DOMAIN segments[s], c \in DOMAIN options :
            segments' = [segments EXCEPT
                ![s] = RenderAll([@ EXCEPT ![k] = SelectVoice(@, options, c)],
                                 voices_cached[s])]
    /\ Rerun(s)
    /\ UNCHANGED <<persisted, provider_voices, clone_ctr, uuid_ctr, PYDUB_AVAILABLE,
                   voices_cached, last_generated_files>>

\* ------------------------------------------------------------- generation
\* render_generation_controls up to a button: the button is shown and enabled
ButtonEnabled(num_segments, least, gen_remaining) ==
    /\ gen_remaining > 0
    /\ ~(num_segments < least \/ num_segments > gen_remaining)

\* The button handler starting the batch also when validate_segments found
\* invalid segments
ClickIgnoresInvalid(s, action, least, reads) ==
    /\ Idle(s)
    /\ uuid_ctr + Len(segments[s]) <= MaxFiles
    /\ \E r \in reads :
        ButtonEnabled(Len(segments[s]), least,
            MAX_GENERATIONS_PER_USER - get_user_generation_count(r, tts_generations))
    /\ LET rendered == RenderAll(segments[s], voices_cached[s])
           invalid == validate_segments(rendered)
       IN  /\ segments' = [segments EXCEPT ![s] = rendered]
           /\ gen' = [gen EXCEPT ![s] =
                [NewGen EXCEPT !.action = action, !.invalid = invalid,
                               !.report = IF invalid # <<>> THEN "invalid" ELSE "none",
                               !.pc = "check"]]
    /\ clone' = [clone EXCEPT ![s] = NewClone]
    /\ deleting' = [deleting EXCEPT ![s] = NewDelete]
    /\ UNCHANGED <<persisted, provider_voices, clone_ctr, uuid_ctr, PYDUB_AVAILABLE,
                   voices_cached, last_generated_files>>

\* A generation button is clicked, the count reads answering one of `reads`: the
\* script run renders the segments and the enabled button, then the handler runs
\* validate_segments, and the batch starts or the error is shown.
ClickWith(s, action, least, reads) ==
    /\ Idle(s)
    /\ uuid_ctr + Len(segments[s]) <= MaxFiles
    /\ \E r \in reads :
        ButtonEnabled(Len(segments[s]), least,
            MAX_GENERATIONS_PER_USER - get_user_generation_count(r, tts_generations))
    /\ LET rendered == RenderAll(segments[s], voices_cached[s])
           invalid == validate_segments(rendered)
       IN  /\ segments' = [segments EXCEPT ![s] = rendered]
           /\ gen' = [gen EXCEPT ![s] =
                [NewGen EXCEPT !.action = action, !.invalid = invalid,
                               !.report = IF invalid # <<>> THEN "invalid" ELSE "none",
                               !.pc = IF invalid # <<>> THEN "done" ELSE "check"]]
    /\ clone' = [clone EXCEPT ![s] = NewClone]
    /\ deleting' = [deleting EXCEPT ![s] = NewDelete]
    /\ UNCHANGED <<persisted, provider_voices, clone_ctr, uuid_ctr, PYDUB_AVAILABLE,
                   voices_cached, last_generated_files>>

Click(s, action, least) == ClickWith(s, action, least, ReadOutcomes)

ClickGenerateSegments(s) == Click(s, "segments", 1)

ClickGenerateMerge(s) == Click(s, "merge", 2)

\* The quota check whose denial does not return
CheckStepRunsAnyway(g, rows, current_count, num_segments) ==
    LET ok == check_generation_limit(current_count, num_segments)
    IN  [g EXCEPT !.count_at_check = rows,
                  !.current_count = current_count,
                  !.allowed = ok,
                  !.i = 1,
                  !.errors = IF ok THEN <<>> ELSE <<"Generation limit exceeded">>,
                  !.pc = "loop"]

\* generate_all_segments up to its loop: the locals after the quota check, which
\* returns ([], ["Generation limit exceeded"]) when the check denies
CheckStep(g, rows, current_count, num_segments) ==
    LET ok == check_generation_limit(current_count, num_segments)
    IN  [g EXCEPT !.count_at_check = rows,
                  !.current_count = current_count,
                  !.allowed = ok,
                  !.i = 1,
                  !.errors = IF ok THEN <<>> ELSE <<"Generation limit exceeded">>,
                  !.pc = IF ok THEN "loop" ELSE "assemble"]

\* generate_all_segments' quota check, the count read answering one of `reads`
CheckLimitWith(s, reads) ==
    /\ gen[s].pc = "check"
    /\ \E r \in reads :
        gen' = [gen EXCEPT ![s] =
            CheckStep(@, tts_generations,
                      get_user_generation_count(r, tts_generations), Len(segments[s]))]
    /\ UNCHANGED <<persisted, provider_voices, clone_ctr, uuid_ctr, PYDUB_AVAILABLE,
                   segments, voices_cached, last_generated_files, clone,
                   deleting>>

CheckLimit(s) == CheckLimitWith(s, ReadOutcomes)

\* save_tts_generation: the table after an insert that succeeds or raises
save_tts_generation(rows, ok) == IF ok THEN rows + 1 ELSE rows

\* generate_all_segments, one segment: generate_single_segment and the appends
GenerateSegment(s) ==
    /\ gen[s].pc = "loop"
    /\ \E outcome \in SynthOutcomes, save_ok \in BOOLEAN :
        LET u == uuid_ctr + 1
            g == LoopStep(gen[s], outcome, save_ok, u)
            attempted == Len(g.saves) > Len(gen[s].saves)
        IN  /\ uuid_ctr' = u
            /\ tts_generations' = IF attempted
                                  THEN save_tts_generation(tts_generations, save_ok)
                                  ELSE tts_generations
            /\ gen' = [gen EXCEPT ![s] =
                    [g EXCEPT !.pc = IF g.i > Len(segments[s]) THEN "assemble" ELSE "loop"]]
    /\ UNCHANGED <<user_voices, provider_voices, clone_ctr, PYDUB_AVAILABLE,
                   segments, voices_cached, last_generated_files, clone,
                   deleting>>

\* "Generate & Merge" after the batch: the try block that merges and then shows
\* the merged file (st.audio, open, st.download_button) and sets
\* merged_successfully last, and the archive when merged_successfully is not set
Assemble(g, available, raises, present_ok, ms, zip_ok) ==
    IF g.generated = <<>> THEN [g EXCEPT !.report = "No files to merge"]
    ELSE LET merged == IF available
                       THEN MergeOutcome(available, raises, g.generated, ms)
                       ELSE [kind |-> "skipped", body |-> <<>>]
             merged_successfully == merged.kind = "merged" /\ present_ok
         IN  IF merged_successfully
             THEN [g EXCEPT !.merge_input = g.generated, !.merge_ms = ms,
                            !.merge_returned = TRUE,
                            !.artifact = merged,
                            !.report = "merged"]
             ELSE [g EXCEPT
                    !.merge_input = IF available THEN g.generated ELSE <<>>,
                    !.merge_returned = (merged.kind = "merged"),
                    !.zip_input = g.generated,
                    !.artifact = IF zip_ok
                                 THEN [kind |-> "zip", body |-> create_zip_archive(g.generated)]
                                 ELSE NoArtifact,
                    !.report = IF zip_ok THEN "zip" ELSE "Failed to create ZIP"]

\* The button handler after generate_all_segments returned
Finish(s) ==
    /\ gen[s].pc = "assemble"
    /\ last_generated_files' = [last_generated_files EXCEPT ![s] = gen[s].generated]
    /\ LET g == gen[s]
       IN  IF g.action = "merge"
           THEN \E raises \in BOOLEAN, present_ok \in BOOLEAN, zip_ok \in BOOLEAN,
                   ms \in [DOMAIN g.generated -> Durations] :
                    gen' = [gen EXCEPT ![s] =
                        [Assemble(g, PYDUB_AVAILABLE, raises, present_ok, ms, zip_ok)
                         EXCEPT !.pc = "done"]]
           ELSE gen' = [gen EXCEPT ![s] =
                        [g EXCEPT !.pc = "done",
                                  !.report = IF g.generated # <<>> THEN "generated"
                                             ELSE "none"]]
    /\ UNCHANGED <<persisted, provider_voices, clone_ctr, uuid_ctr, PYDUB_AVAILABLE,
                   segments, voices_cached, clone,
                   deleting>>

Editor(s) ==
    \/ FetchVoices(s)
    \/ AddSegment(s)
    \/ ClearSegments(s)
    \/ RemoveSegment(s)
    \/ EditText(s)
    \/ ChooseVoice(s)

Generation(s) ==
    \/ ClickGenerateSegments(s)
    \/ ClickGenerateMerge(s)
    \/ CheckLimit(s)
    \/ GenerateSegment(s)
    \/ Finish(s)

\* One session: the editor and the generation pipeline.
Next == Editor("A") \/ Generation("A")

Spec == Init /\ [][Next]_vars

\* ---------------------------------------------------------- voice cloning
FAILED_TO_CREATE == "Failed to create voice"

CloneOutcomes == {"ok", "fails"}

\* ElevenLabsManager.create_instant_voice_clone: the new voice id, or the sentinel
create_instant_voice_clone(outcome, k) ==
    IF outcome = "ok" THEN VoiceId(k) ELSE FAILED_TO_CREATE

\* handle_voice_cloning's test of what the provider call returned
CloneSucceeded(new_voice_id) == Truthy(new_voice_id) /\ new_voice_id # FAILED_TO_CREATE

\* handle_voice_cloning's limit check, given the count it read
VoiceLimitReached(voice_count) == voice_count >= MAX_VOICES_PER_USER

\* handle_voice_cloning going on to the provider call when the upload was not
\* written
CloneStartIgnoresUpload(s) ==
    /\ Idle(s)
    /\ \E shown \in ReadOutcomes :
        ~VoiceLimitReached(get_user_voice_count(shown, user_voices))
    /\ \E r \in ReadOutcomes, upload_ok \in BOOLEAN :
        LET voice_count == get_user_voice_count(r, user_voices)
            denied == VoiceLimitReached(voice_count)
            c == [NewClone EXCEPT !.voice_count = voice_count,
                                  !.count_at_start = Cardinality(user_voices)]
        IN  clone' = [clone EXCEPT ![s] =
                IF denied THEN [c EXCEPT !.pc = "done", !.result = "denied"]
                ELSE [c EXCEPT !.pc = "create", !.sample_saved = upload_ok]]
    /\ gen' = [gen EXCEPT ![s] = NewGen]
    /\ deleting' = [deleting EXCEPT ![s] = NewDelete]
    /\ UNCHANGED <<persisted, provider_voices, clone_ctr, uuid_ctr, PYDUB_AVAILABLE,
                   segments, voices_cached, last_generated_files>>

\* handle_voice_cloning up to the provider call: the sidebar shows the form, the
\* limit check, and the upload written under data/voicesamples
CloneStart(s) ==
    /\ Idle(s)
    /\ \E shown \in ReadOutcomes :
        ~VoiceLimitReached(get_user_voice_count(shown, user_voices))
    /\ \E r \in ReadOutcomes, upload_ok \in BOOLEAN :
        LET voice_count == get_user_voice_count(r, user_voices)
            denied == VoiceLimitReached(voice_count)
            c == [NewClone EXCEPT !.voice_count = voice_count,
                                  !.count_at_start = Cardinality(user_voices)]
        IN  clone' = [clone EXCEPT ![s] =
                IF denied THEN [c EXCEPT !.pc = "done", !.result = "denied"]
                ELSE IF ~upload_ok THEN [c EXCEPT !.pc = "done", !.result = "failed"]
                ELSE [c EXCEPT !.pc = "create", !.sample_saved = TRUE]]
    /\ gen' = [gen EXCEPT ![s] = NewGen]
    /\ deleting' = [deleting EXCEPT ![s] = NewDelete]
    /\ UNCHANGED <<persisted, provider_voices, clone_ctr, uuid_ctr, PYDUB_AVAILABLE,
                   segments, voices_cached, last_generated_files>>

\* The provider call, and the branch on what it returned; the provider creates
\* at most MaxClones voices
CreateClone(s) ==
    /\ clone[s].pc = "create"
    /\ \E outcome \in IF clone_ctr < MaxClones THEN CloneOutcomes ELSE {"fails"} :
        LET new_voice_id == create_instant_voice_clone(outcome, clone_ctr + 1)
            ok == CloneSucceeded(new_voice_id)
        IN  /\ clone_ctr' = IF outcome = "ok" THEN clone_ctr + 1 ELSE clone_ctr
            /\ provider_voices' = IF outcome = "ok"
                                  THEN provider_voices \cup {new_voice_id}
                                  ELSE provider_voices
            /\ clone' = [clone EXCEPT ![s] =
                    [@ EXCEPT !.clone_calls = @ + 1,
                              !.new_voice_id = new_voice_id,
                              !.pc = IF ok THEN "save_voice" ELSE "done",
                              !.result = IF ok THEN "none" ELSE "failed"]]
    /\ UNCHANGED <<persisted, uuid_ctr, PYDUB_AVAILABLE, segments, voices_cached,
                   last_generated_files, gen,
                   deleting>>

\* save_user_voice up to the insert: no client, or the limit is reached, and it
\* returns False
SaveVoiceCheck(s) ==
    /\ clone[s].pc = "save_voice"
    /\ \E client \in BOOLEAN, r \in ReadOutcomes :
        LET refused == ~client \/ VoiceLimitReached(get_user_voice_count(r, user_voices))
        IN  clone' = [clone EXCEPT ![s] =
                [@ EXCEPT !.pc = IF refused THEN "compensate" ELSE "insert"]]
    /\ UNCHANGED <<persisted, provider_voices, clone_ctr, uuid_ctr, PYDUB_AVAILABLE,
                   segments, voices_cached, last_generated_files, gen,
                   deleting>>

\* save_user_voice's insert; when it succeeds handle_voice_cloning refreshes the
\* voice list and returns True
SaveVoiceInsert(s) ==
    /\ clone[s].pc = "insert"
    /\ \E insert_ok \in BOOLEAN, fetch \in ReadOutcomes :
        LET cache == IF insert_ok /\ fetch = "ok" THEN ProviderList(provider_voices, clone_ctr)
                     ELSE voices_cached[s]
        IN  /\ user_voices' = IF insert_ok
                              THEN user_voices \cup {clone[s].new_voice_id}
                              ELSE user_voices
            /\ voices_cached' = [voices_cached EXCEPT ![s] = cache]
            /\ segments' = [segments EXCEPT ![s] = RenderAll(@, cache)]
            /\ clone' = [clone EXCEPT ![s] =
                    [@ EXCEPT !.record_written = insert_ok,
                              !.pc = IF insert_ok THEN "done" ELSE "compensate",
                              !.result = IF insert_ok THEN "created" ELSE "none"]]
    /\ UNCHANGED <<tts_generations, provider_voices, clone_ctr, uuid_ctr,
                   PYDUB_AVAILABLE, last_generated_files, gen,
                   deleting>>

\* delete_voice_from_elevenlabs: the provider's voices after the request
delete_voice_from_elevenlabs(voices, voice_id, ok) ==
    IF ok THEN voices \ {voice_id} ELSE voices

\* handle_voice_cloning returning False without the provider-side delete
CompensateWithoutDelete(s) ==
    /\ clone[s].pc = "compensate"
    /\ clone' = [clone EXCEPT ![s] = [@ EXCEPT !.pc = "done", !.result = "failed"]]
    /\ UNCHANGED <<persisted, provider_voices, clone_ctr, uuid_ctr, PYDUB_AVAILABLE,
                   segments, voices_cached, last_generated_files, gen,
                   deleting>>

\* handle_voice_cloning when save_user_voice returned False
Compensate(s) ==
    /\ clone[s].pc = "compensate"
    /\ \E delete_ok \in BOOLEAN :
        provider_voices' =
            delete_voice_from_elevenlabs(provider_voices, clone[s].new_voice_id, delete_ok)
    /\ clone' = [clone EXCEPT ![s] =
            [@ EXCEPT !.delete_calls = Append(@, clone[s].new_voice_id),
                      !.pc = "done", !.result = "failed"]]
    /\ UNCHANGED <<persisted, clone_ctr, uuid_ctr, PYDUB_AVAILABLE, segments,
                   voices_cached, last_generated_files, gen,
                   deleting>>

Cloning(s) ==
    \/ CloneStart(s)
    \/ CreateClone(s)
    \/ SaveVoiceCheck(s)
    \/ SaveVoiceInsert(s)
    \/ Compensate(s)

\* Two sessions of the user, cloning voices.
NextClone == \E s \in Sessions : Cloning(s)

SpecClone == Init /\ [][NextClone]_vars

\* --------------------------------------------------------- voice deletion
\* delete_user_voice: the table after a delete that succeeds, or that finds no
\* client or raises
delete_user_voice(rows, voice_id, ok) == IF ok THEN rows \ {voice_id} ELSE rows

\* render_my_voices_tab: the voices that get a Delete button, those of the user's
\* records (none when the read fails) that the cached voice list holds
ListedVoices(outcome, rows, cache) ==
    {cache[k].voice_id : k \in DOMAIN cache} \cap (IF outcome = "ok" THEN rows ELSE {})

\* The Delete handler going on to the record whatever the provider answered
DeleteStartIgnoresProvider(s) ==
    /\ Idle(s)
    /\ \E r \in ReadOutcomes :
        \E voice_id \in ListedVoices(r, user_voices, voices_cached[s]) :
            \E ok \in BOOLEAN :
                /\ provider_voices' =
                        delete_voice_from_elevenlabs(provider_voices, voice_id, ok)
                /\ deleting' = [deleting EXCEPT ![s] =
                        [NewDelete EXCEPT !.voice_id = voice_id, !.provider_ok = ok,
                                          !.pc = "db_delete"]]
    /\ gen' = [gen EXCEPT ![s] = NewGen]
    /\ clone' = [clone EXCEPT ![s] = NewClone]
    /\ UNCHANGED <<persisted, clone_ctr, uuid_ctr, PYDUB_AVAILABLE, segments,
                   voices_cached, last_generated_files>>

\* A Delete button of the My Voices tab is clicked: delete_voice_from_elevenlabs,
\* and the handler goes on only when it returned True
DeleteStart(s) ==
    /\ Idle(s)
    /\ \E r \in ReadOutcomes :
        \E voice_id \in ListedVoices(r, user_voices, voices_cached[s]) :
            \E ok \in BOOLEAN :
                /\ provider_voices' =
                        delete_voice_from_elevenlabs(provider_voices, voice_id, ok)
                /\ deleting' = [deleting EXCEPT ![s] =
                        [NewDelete EXCEPT !.voice_id = voice_id, !.provider_ok = ok,
                                          !.pc = IF ok THEN "db_delete" ELSE "done"]]
    /\ gen' = [gen EXCEPT ![s] = NewGen]
    /\ clone' = [clone EXCEPT ![s] = NewClone]
    /\ UNCHANGED <<persisted, clone_ctr, uuid_ctr, PYDUB_AVAILABLE, segments,
                   voices_cached, last_generated_files>>

\* delete_user_voice, its result unread, then fetch_voices and the rerun of the
\* voices page (which renders no segment)
DeleteRecord(s) ==
    /\ deleting[s].pc = "db_delete"
    /\ \E db_ok \in BOOLEAN, fetch \in ReadOutcomes :
        /\ user_voices' = delete_user_voice(user_voices, deleting[s].voice_id, db_ok)
        /\ voices_cached' = [voices_cached EXCEPT ![s] =
                IF fetch = "ok" THEN ProviderList(provider_voices, clone_ctr) ELSE @]
        /\ deleting' = [deleting EXCEPT ![s] =
                [@ EXCEPT !.db_attempted = TRUE, !.db_ok = db_ok, !.pc = "done"]]
    /\ UNCHANGED <<tts_generations, provider_voices, clone_ctr, uuid_ctr,
                   PYDUB_AVAILABLE, segments, last_generated_files, gen, clone>>

Deleting(s) ==
    \/ DeleteStart(s)
    \/ DeleteRecord(s)

\* logout_user also removing the user's generation records
LogoutClearsHistory(s) ==
    /\ Idle(s)
    /\ tts_generations' = 0
    /\ segments' = [segments EXCEPT ![s] = <<create_new_segment>>]
    /\ last_generated_files' = [last_generated_files EXCEPT ![s] = <<>>]
    /\ voices_cached' = [voices_cached EXCEPT ![s] = <<>>]
    /\ Rerun(s)
    /\ UNCHANGED <<user_voices, provider_voices, clone_ctr, uuid_ctr, PYDUB_AVAILABLE>>

\* logout_user: the session state is reset, the tables are not touched
Logout(s) ==
    /\ Idle(s)
    /\ segments' = [segments EXCEPT ![s] = <<create_new_segment>>]
    /\ last_generated_files' = [last_generated_files EXCEPT ![s] = <<>>]
    /\ voices_cached' = [voices_cached EXCEPT ![s] = <<>>]
    /\ Rerun(s)
    /\ UNCHANGED <<persisted, provider_voices, clone_ctr, uuid_ctr, PYDUB_AVAILABLE>>

Voices(s) ==
    \/ FetchVoices(s)
    \/ Cloning(s)
    \/ Deleting(s)

\* Two sessions of the user on the voices: one lists, clones and deletes, the
\* other lists and deletes.
NextVoices ==
    \/ Voices("A")
    \/ FetchVoices("B")
    \/ Deleting("B")

SpecVoices == Init /\ [][NextVoices]_vars

\* One session on the voices. A handler that was started runs to its end, and the
\* user keeps using what the pages offer.
NextOneUser == Voices("A")

SpecOneUser ==
    /\ Init
    /\ [][NextOneUser]_vars
    /\ WF_vars(FetchVoices("A"))
    /\ WF_vars(Cloning("A"))
    /\ WF_vars(Deleting("A"))

\* ------------------------------------------------- a typed script as input
\* A segment the user typed a text into.
TypedSegment == [text |-> <<"h", "i">>, voice_id |-> None, voice_label |-> "Choose voice"]

\* The sessions after main() fetched the voices and the user typed a script of
\* 1..MaxSegments segments, rendered against the fetched voices.
InitTyped ==
    /\ tts_generations = 0
    /\ user_voices = {}
    /\ provider_voices \in Accounts
    /\ clone_ctr = 0
    /\ uuid_ctr = 0
    /\ PYDUB_AVAILABLE \in BOOLEAN
    /\ voices_cached = [s \in Sessions |-> ProviderList(provider_voices, 0)]
    /\ \E n \in 1..MaxSegments :
        segments = [s \in Sessions |->
                        RenderAll([k \in 1..n |-> TypedSegment], voices_cached[s])]
    /\ last_generated_files = [s \in Sessions |-> <<>>]
    /\ gen = [s \in Sessions |-> NewGen]
    /\ clone = [s \in Sessions |-> NewClone]
    /\ deleting = [s \in Sessions |-> NewDelete]

\* "Generate Segments" batches of session s.
Batches(s) ==
    \/ ClickGenerateSegments(s)
    \/ CheckLimit(s)
    \/ GenerateSegment(s)
    \/ Finish(s)

\* One session under both quotas: batches and cloning.
NextQuota == Batches("A") \/ Cloning("A")

SpecQuota == InitTyped /\ [][NextQuota]_vars

\* One session using the whole application: batches, the voices, clear and logout;
\* it writes at most MaxFiles - 3 files and clones at most MaxClones - 1 voices.
NextApp ==
    /\ \/ FetchVoices("A")
       \/ ClearSegments("A")
       \/ Logout("A")
       \/ Batches("A")
       \/ Cloning("A")
       \/ Deleting("A")
    /\ uuid_ctr' <= MaxFiles - 3
    /\ clone_ctr' <= MaxClones - 1

SpecApp == InitTyped /\ [][NextApp]_vars

\* Batches of session s while every count read is answered.
BatchesCounted(s) ==
    \/ ClickWith(s, "segments", 1, {"ok"})
    \/ CheckLimitWith(s, {"ok"})
    \/ GenerateSegment(s)
    \/ Finish(s)

\* Two sessions of a user whose earlier batches wrote k files and k records, with
\* at most three more files to write before MaxFiles, after a new login and a
\* typed script.
InitRace ==
    /\ \E k \in (MaxFiles - 3)..MAX_GENERATIONS_PER_USER :
        tts_generations = k /\ uuid_ctr = k
    /\ user_voices = {}
    /\ provider_voices \in Accounts
    /\ clone_ctr = 0
    /\ PYDUB_AVAILABLE \in BOOLEAN
    /\ voices_cached = [s \in Sessions |-> ProviderList(provider_voices, 0)]
    /\ \E n \in 1..MaxSegments :
        segments = [s \in Sessions |->
                        RenderAll([k \in 1..n |-> TypedSegment], voices_cached[s])]
    /\ last_generated_files = [s \in Sessions |-> <<>>]
    /\ gen = [s \in Sessions |-> NewGen]
    /\ clone = [s \in Sessions |-> NewClone]
    /\ deleting = [s \in Sessions |-> NewDelete]

\* Two sessions of the user generating at once, the persistence layer up.
NextRace == \E s \in Sessions : BatchesCounted(s)

SpecRace == InitRace /\ [][NextRace]_vars

\* ------------------------------------------------- scripts as inputs
\* A segment as the editor can leave it: any text, a voice chosen or not.
SegmentValues ==
    {[text |-> t, voice_id |-> v.voice_id, voice_label |-> v.label] :
        t \in Texts,
        v \in {[voice_id |-> None, label |-> "Choose voice"],
               [voice_id |-> "v_rachel", label |-> "Rachel"]}}

Scripts == UNION {[1..n -> SegmentValues] : n \in 0..MaxSegments}

InitScripts ==
    /\ tts_generations = 0
    /\ user_voices = {}
    /\ provider_voices = {"v_rachel"}
    /\ clone_ctr = 0
    /\ uuid_ctr = 0
    /\ PYDUB_AVAILABLE \in BOOLEAN
    /\ segments \in [Sessions -> Scripts]
    /\ segments["B"] = <<create_new_segment>>
    /\ voices_cached = [s \in Sessions |-> <<>>]
    /\ last_generated_files = [s \in Sessions |-> <<>>]
    /\ gen = [s \in Sessions |-> NewGen]
    /\ clone = [s \in Sessions |-> NewClone]
    /\ deleting = [s \in Sessions |-> NewDelete]

NextScripts == Generation("A")

\* One session generating from any script, with no editing in between.
SpecScripts == InitScripts /\ [][NextScripts]_vars

\* ================================================================ claims
\* The batch of session s came back from generate_all_segments' loop.
BatchReturned(s) ==
    /\ gen[s].action # "none"
    /\ gen[s].invalid = <<>>
    /\ gen[s].pc \in {"assemble", "done"}

\* The quota check of session s has been taken.
Checked(s) ==
    /\ gen[s].action # "none"
    /\ gen[s].invalid = <<>>
    /\ gen[s].pc \in {"loop", "assemble", "done"}

FailedCalls(calls) == {k \in DOMAIN calls : calls[k].outcome # "ok"}

\* The paths the successful provider calls returned, in call order.
RECURSIVE ClipsOf(_)
ClipsOf(calls) ==
    IF calls = <<>> THEN <<>>
    ELSE (IF Head(calls).outcome = "ok" THEN <<Head(calls).path>> ELSE <<>>)
         \o ClipsOf(Tail(calls))

\* The segments of the failed provider calls, in call order.
RECURSIVE FailedSegs(_)
FailedSegs(calls) ==
    IF calls = <<>> THEN <<>>
    ELSE (IF Head(calls).outcome # "ok" THEN <<Head(calls).seg>> ELSE <<>>)
         \o FailedSegs(Tail(calls))

Distinct(seq) == \A j, k \in DOMAIN seq : j # k => seq[j] # seq[k]

\* C1: a validated batch that passed the quota check, with the provider calls of
\* any set F of its segments failing, returns one clip per segment outside F in
\* script order and one error per segment of F naming its 1-based position: every
\* segment is in exactly one list, and a failure does not end the loop.
C1_PartialFailure ==
    \A s \in Sessions :
        (BatchReturned(s) /\ gen[s].allowed) =>
            LET g == gen[s]
                n == Len(segments[s])
                F == FailedCalls(g.calls)
                failed == FailedSegs(g.calls)
            IN  /\ Len(g.calls) = n
                /\ \A k \in 1..n : g.calls[k].seg = k
                /\ g.generated = ClipsOf(g.calls)
                /\ Len(g.generated) = n - Cardinality(F)
                /\ Distinct(g.generated)
                /\ \A k \in DOMAIN g.generated : g.generated[k] \in OutputFiles(uuid_ctr)
                /\ Len(g.errors) = Cardinality(F)
                /\ \A k \in DOMAIN g.errors :
                    /\ failed[k] \in F
                    /\ g.errors[k] = "Segment " \o ToString(failed[k]) \o ": Generation failed"
                /\ Len(g.generated) + Len(g.errors) = n

\* C1's case: the first segment's call failed and the second one's went through.
C1_Witness ==
    /\ BatchReturned("A") /\ gen["A"].allowed
    /\ Len(gen["A"].calls) >= 2
    /\ gen["A"].calls[1].outcome # "ok"
    /\ gen["A"].calls[2].outcome = "ok"
    /\ Len(gen["A"].generated) = Len(segments["A"]) - 1
    /\ gen["A"].errors = <<"Segment 1: Generation failed">>

OnlyWhitespace(t) == \A k \in DOMAIN t : t[k] \in Whitespace

InvalidPositions(segs) ==
    {k \in DOMAIN segs : OnlyWhitespace(segs[k].text) \/ segs[k].voice_id = None}

\* C2: validate_segments returns exactly the 1-based positions, ascending, of the
\* segments whose trimmed text is empty or whose voice_id is unset, and the empty
\* list exactly when every segment is valid.
C2_ValidateExact ==
    \A s \in Sessions :
        gen[s].action # "none" =>
            LET inv == gen[s].invalid
                bad == InvalidPositions(segments[s])
            IN  /\ {inv[k] : k \in DOMAIN inv} = bad
                /\ Len(inv) = Cardinality(bad)
                /\ \A j, k \in DOMAIN inv : j < k => inv[j] < inv[k]
                /\ (inv = <<>>) <=> (bad = {})

\* C2's case: two invalid segments, one by whitespace-only text and one by a
\* missing voice, are both reported.
C2_Witness ==
    /\ gen["A"].action # "none"
    /\ Len(segments["A"]) >= 2
    /\ segments["A"][1].text = <<" ">> /\ segments["A"][1].voice_id # None
    /\ segments["A"][2].text = <<" ", "h", "i", "\n">> /\ segments["A"][2].voice_id = None
    /\ gen["A"].invalid = <<1, 2>>

\* C3: with persisted count c and batch size r, check_generation_limit denies
\* whenever c >= 5, and for c < 5 allows exactly when r <= 5 - c.
C3_CheckByPersistedCount ==
    \A s \in Sessions :
        Checked(s) =>
            LET c == gen[s].count_at_check
                r == Len(segments[s])
            IN  gen[s].allowed <=> (c < 5 /\ r <= 5 - c)

\* C4: the quota decision is taken once, before the first provider call: a denied
\* batch makes no provider call, writes no record and returns no clip, and an
\* allowed batch is never stopped part-way.
C4_DeniedBatchDoesNothing ==
    \A s \in Sessions :
        /\ gen[s].calls # <<>> => (Checked(s) /\ gen[s].allowed)
        /\ (Checked(s) /\ ~gen[s].allowed) =>
            /\ gen[s].calls = <<>>
            /\ gen[s].saves = <<>>
            /\ gen[s].generated = <<>>
            /\ gen[s].pc \in {"assemble", "done"}
            /\ tts_generations = gen[s].count_at_check
        /\ (BatchReturned(s) /\ gen[s].allowed) => Len(gen[s].calls) = Len(segments[s])

\* C4's case: a batch the check denied has returned.
C4_Witness ==
    /\ gen["A"].pc = "done" /\ Checked("A") /\ ~gen["A"].allowed
    /\ gen["A"].errors = <<"Generation limit exceeded">>
    /\ last_generated_files["A"] = <<>>

\* C5: in one session running batches one at a time, the persisted generation
\* records never exceed the cap of 5.
C5_CapNeverExceeded == tts_generations <= 5

\* C6: the persisted voice records of the user never exceed the cap of 1, also
\* with two sessions cloning at once.
C6_VoiceCapNeverExceeded == Cardinality(user_voices) <= 1

\* The provider call of session s's clone run returned a new voice id.
ProviderCloned(s) ==
    clone[s].clone_calls > 0 /\ clone[s].new_voice_id \notin {None, "Failed to create voice"}

\* C7: when the provider created the voice and the record is then not persisted,
\* the provider-side delete is called exactly once, with the new voice id, and the
\* operation reports failure; it is not called when the record was persisted or
\* when the provider call failed.
C7_CompensatingDelete ==
    \A s \in Sessions :
        LET c == clone[s]
        IN  /\ (c.pc = "done" /\ ProviderCloned(s) /\ ~c.record_written) =>
                    (c.delete_calls = <<c.new_voice_id>> /\ c.result = "failed")
            /\ c.record_written => (c.delete_calls = <<>> /\ c.result = "created")
            /\ ~ProviderCloned(s) => c.delete_calls = <<>>
            /\ Len(c.delete_calls) <= 1
            /\ c.delete_calls # <<>> => c.result = "failed"

\* C7's case: the insert of the record raised after the provider made the voice.
C7_Witness ==
    /\ clone["A"].pc = "done"
    /\ ProviderCloned("A")
    /\ ~clone["A"].record_written
    /\ clone["A"].delete_calls = <<clone["A"].new_voice_id>>
    /\ clone["A"].result = "failed"
    /\ clone["A"].new_voice_id \notin user_voices

\* C8: a clone started with the persisted voice count at the cap is denied: no
\* provider call, no stored sample, no record.
C8_DeniedAtCap ==
    \A s \in Sessions :
        (clone[s].pc # "idle" /\ clone[s].count_at_start >= 1) =>
            /\ clone[s].result = "denied"
            /\ clone[s].clone_calls = 0
            /\ ~clone[s].sample_saved
            /\ ~clone[s].record_written

OkSaves(saves) == {k \in DOMAIN saves : saves[k].ok}

\* The segments of the successful provider calls, in call order.
RECURSIVE SucceededSegs(_)
SucceededSegs(calls) ==
    IF calls = <<>> THEN <<>>
    ELSE (IF Head(calls).outcome = "ok" THEN <<Head(calls).seg>> ELSE <<>>)
         \o SucceededSegs(Tail(calls))

\* C9: one attempt to persist a record per synthesized segment and none for a
\* failed one; when the attempt fails the clip is still returned and no error is
\* added for it, so the records written may be fewer than the clips.
C9_RecordPerClip ==
    \A s \in Sessions :
        LET g == gen[s]
        IN  /\ [k \in DOMAIN g.saves |-> g.saves[k].seg] = SucceededSegs(g.calls)
            /\ Len(g.generated) = Len(g.saves)
            /\ \A k \in DOMAIN g.saves :
                /\ g.generated[k] = g.calls[g.saves[k].seg].path
                /\ \A e \in DOMAIN g.errors :
                    g.errors[e] # "Segment " \o ToString(g.saves[k].seg) \o ": Generation failed"
            /\ (Checked(s) /\ g.allowed) =>
                    /\ Len(g.errors) = Len(g.calls) - Len(g.saves)
                    /\ tts_generations = g.count_at_check + Cardinality(OkSaves(g.saves))

\* C9's case: the record of the first clip was not written, the second one's was.
C9_Witness ==
    /\ gen["A"].pc = "done"
    /\ Len(gen["A"].saves) = 2
    /\ ~gen["A"].saves[1].ok /\ gen["A"].saves[2].ok
    /\ Len(gen["A"].generated) = 2
    /\ gen["A"].errors = <<>>
    /\ tts_generations = gen["A"].count_at_check + 1

RECURSIVE SumSeq(_)
SumSeq(ms) == IF ms = <<>> THEN 0 ELSE Head(ms) + SumSeq(Tail(ms))

\* C10: merging n >= 1 clips gives the clips in list order with one 300 ms silence
\* between neighbours and none before or after, of duration the clips' sum plus
\* (n-1)*300; the list merged is the batch's clips in script order.
C10_MergeLayout ==
    \A s \in Sessions :
        gen[s].artifact.kind = "merged" =>
            LET g == gen[s]
                body == g.artifact.body
                n == Len(g.merge_input)
            IN  /\ n >= 1
                /\ Len(body) = 2 * n - 1
                /\ \A k \in 1..n :
                    body[2 * k - 1] = [kind |-> "clip", src |-> g.merge_input[k],
                                       ms |-> g.merge_ms[k]]
                /\ \A k \in 1..(n - 1) :
                    body[2 * k].kind = "silence" /\ body[2 * k].ms = 300
                /\ SumMs(body) = SumSeq(g.merge_ms) + (n - 1) * 300
                /\ g.merge_input = ClipsOf(g.calls)
                /\ \A j, k \in 1..n :
                    j < k => \E a, b \in DOMAIN g.calls :
                        /\ a < b
                        /\ g.calls[a].path = g.merge_input[j]
                        /\ g.calls[b].path = g.merge_input[k]

\* C10's case: two clips of different lengths merged.
C10_Witness ==
    /\ gen["A"].artifact.kind = "merged"
    /\ Len(gen["A"].merge_input) = 2
    /\ gen["A"].merge_ms = <<500, 200>>
    /\ Len(gen["A"].artifact.body) = 3
    /\ SumMs(gen["A"].artifact.body) = 1000

\* The "Generate & Merge" action of session s ended with clips to assemble.
MergeActionEnded(s) ==
    /\ gen[s].action = "merge"
    /\ gen[s].pc = "done"
    /\ gen[s].invalid = <<>>
    /\ gen[s].generated # <<>>

\* C11: in "Generate & Merge" with at least one clip, when pydub is missing or
\* merge_audio_files raises, the action ends without the error and the archive is
\* built from the same clips; the archive is never built when merge_audio_files
\* returned; the only error reported is a failure of the archive step.
C11_ArchiveOnlyWhenMergeFailed ==
    \A s \in Sessions :
        MergeActionEnded(s) =>
            LET g == gen[s]
            IN  /\ ~g.merge_returned => g.zip_input = g.generated
                /\ g.merge_returned => g.zip_input = <<>>
                /\ g.report \in {"merged", "zip", "Failed to create ZIP"}
                /\ g.report = "Failed to create ZIP" =>
                        (g.zip_input = g.generated /\ g.artifact = NoArtifact)

\* C12: the archive has one entry per input clip, in input order, each named by
\* the basename of the clip's path alone and holding that clip's file; the input
\* is the batch's clips, whose basenames differ.
C12_ArchiveEntries ==
    \A s \in Sessions :
        gen[s].zip_input # <<>> /\ gen[s].artifact.kind = "zip" =>
            LET body == gen[s].artifact.body
                input == gen[s].zip_input
            IN  /\ input = ClipsOf(gen[s].calls)
                /\ Len(body) = Len(input)
                /\ \A k \in DOMAIN input :
                    /\ body[k].src = input[k]
                    /\ Len(body[k].arcname) = 1
                    /\ body[k].arcname[1] = input[k][Len(input[k])]
                /\ \A j, k \in DOMAIN body : j # k => body[j].arcname # body[k].arcname

\* C12's case: an archive of two clips, built because pydub is missing.
C12_Witness ==
    /\ ~PYDUB_AVAILABLE
    /\ gen["A"].artifact.kind = "zip"
    /\ Len(gen["A"].zip_input) = 2
    /\ Len(gen["A"].artifact.body) = 2
    /\ gen["A"].artifact.body[1].arcname # gen["A"].zip_input[1]

\* C13: when validate_segments finds invalid segments, the action ends there: no
\* quota check, no provider call, no record, no clip, and the click leaves
\* last_generated_files, the records and the files as they were.
C13_InvalidNeverStarts ==
    /\ [](\A s \in Sessions :
            gen[s].invalid # <<>> =>
                /\ gen[s].pc = "done"
                /\ gen[s].report = "invalid"
                /\ gen[s].i = 0
                /\ gen[s].calls = <<>>
                /\ gen[s].saves = <<>>
                /\ gen[s].generated = <<>>)
    /\ [][\A s \in Sessions :
            (gen'[s].invalid # <<>> /\ gen'[s] # gen[s]) =>
                /\ last_generated_files' = last_generated_files
                /\ tts_generations' = tts_generations
                /\ uuid_ctr' = uuid_ctr]_vars

\* C13's case: an invalid script is submitted after an earlier batch left clips.
C13_Witness ==
    /\ gen["A"].action # "none"
    /\ gen["A"].invalid # <<>>
    /\ gen["A"].pc = "done"
    /\ last_generated_files["A"] # <<>>
    /\ tts_generations > 0

\* C14: when the uploaded sample cannot be stored, handle_voice_cloning ends as
\* failed at that step: no provider call, no voice id, no record, no compensating
\* delete; the provider is only ever called with a stored sample.
C14_UploadFailureEndsClone ==
    \A s \in Sessions :
        LET c == clone[s]
        IN  /\ (c.pc # "idle" /\ c.result # "denied" /\ ~c.sample_saved) =>
                    /\ c.pc = "done"
                    /\ c.result = "failed"
                    /\ c.clone_calls = 0
                    /\ c.new_voice_id = None
                    /\ ~c.record_written
                    /\ c.delete_calls = <<>>
            /\ c.clone_calls > 0 => c.sample_saved

\* C14's case: the limit check passed on a true count and the upload failed.
C14_Witness ==
    /\ clone["A"].pc = "done"
    /\ clone["A"].voice_count = 0
    /\ clone["A"].result = "failed"
    /\ ~clone["A"].sample_saved
    /\ clone["A"].clone_calls = 0
    /\ user_voices = {}

\* The records other batches wrote since session s's batch took its quota check.
WrittenByOthersSince(s) ==
    tts_generations - gen[s].count_at_check - Cardinality(OkSaves(gen[s].saves))

\* C15: with every count read answered, each batch that passes the check read the
\* persisted count c with c + batch size <= 5; nothing orders one batch's check
\* before another's inserts, and the persisted count exceeds 5 only in states
\* where records were written by another batch after some batch's check.
C15_OvershootOnlyByInterleaving ==
    /\ \A s \in Sessions :
        (Checked(s) /\ gen[s].allowed) =>
            /\ gen[s].current_count = gen[s].count_at_check
            /\ gen[s].count_at_check + Len(segments[s]) <= 5
    /\ tts_generations > 5 =>
        \E s \in Sessions :
            Checked(s) /\ gen[s].allowed /\ WrittenByOthersSince(s) > 0

\* C15's case: both sessions passed the check on the same persisted count before
\* either inserted, and their records together exceed the cap.
C15_Witness ==
    /\ \A s \in Sessions : Checked(s) /\ gen[s].allowed
    /\ gen["A"].count_at_check = gen["B"].count_at_check
    /\ gen["A"].count_at_check < 5
    /\ tts_generations > 5
    /\ tts_generations = gen["A"].count_at_check
            + Cardinality(OkSaves(gen["A"].saves)) + Cardinality(OkSaves(gen["B"].saves))

\* C16: when the user is at the voice cap with one voice and the delete action's
\* provider-side deletion of that voice has succeeded, the persisted voice count
\* eventually falls below the cap, also when delete_user_voice fails.
C16_DeleteRestoresQuota ==
    \A s \in Sessions :
        (/\ deleting[s].pc = "db_delete"
         /\ deleting[s].provider_ok
         /\ user_voices = {deleting[s].voice_id})
            ~> (Cardinality(user_voices) < MAX_VOICES_PER_USER)

\* C20: the delete action calls delete_user_voice only after the provider-side
\* deletion of that voice id returned True; a record leaves the table only in that
\* step and it is the record of that voice id; a failed provider-side deletion
\* ends the action with no delete attempted and the records unchanged.
C20_RecordDeletedAfterProvider ==
    /\ [](\A s \in Sessions :
            LET d == deleting[s]
            IN  /\ d.pc = "db_delete" => d.provider_ok
                /\ d.db_attempted => d.provider_ok
                /\ d.db_ok => d.db_attempted
                /\ (d.pc = "done" /\ ~d.provider_ok) => ~d.db_attempted)
    /\ [][~(user_voices \subseteq user_voices') =>
            \E s \in Sessions :
                /\ deleting[s].pc = "db_delete"
                /\ deleting[s].provider_ok
                /\ deleting'[s].db_ok
                /\ user_voices' = user_voices \ {deleting[s].voice_id}]_vars
    /\ [][\A s \in Sessions :
            (deleting'[s] # deleting[s] /\ deleting'[s].pc = "done"
                /\ ~deleting'[s].provider_ok) =>
                    user_voices' = user_voices]_vars

\* C20's case: the provider-side deletion failed and the record is still there.
C20_Witness ==
    /\ deleting["A"].pc = "done"
    /\ ~deleting["A"].provider_ok
    /\ ~deleting["A"].db_attempted
    /\ deleting["A"].voice_id \in user_voices
    /\ deleting["A"].voice_id \in provider_voices

\* The segment carries no voice, or the id and the label of one cached voice.
VoiceConsistent(seg, cache) ==
    \/ seg.voice_id = None
    \/ \E k \in DOMAIN cache :
        /\ cache[k].voice_id = seg.voice_id
        /\ (IF cache[k].name \notin {None, ""} THEN cache[k].name ELSE cache[k].voice_id)
                = seg.voice_label

\* C17: in the script run of a generation click, which has just rendered every
\* segment, each segment either has no voice_id (and is reported invalid) or has
\* the voice_id of a voice in the cached list whose label is its voice_label: no
\* segment reaches generation with the id of a voice the cache no longer holds.
C17_VoiceInCacheAtGeneration ==
    \A s \in Sessions :
        gen[s].action # "none" =>
            \A k \in DOMAIN segments[s] :
                /\ VoiceConsistent(segments[s][k], voices_cached[s])
                /\ segments[s][k].voice_id = None =>
                        \E j \in DOMAIN gen[s].invalid : gen[s].invalid[j] = k

\* C18: the persisted generation count never decreases under any operation
\* (batches, cloning, voice deletion, clear, logout); it grows by one only in a
\* loop step that also returns a clip, so a batch writes at most as many records
\* as it produced clips.
C18_CountMonotone ==
    /\ [][/\ tts_generations' >= tts_generations
          /\ tts_generations' # tts_generations =>
                \E s \in Sessions :
                    /\ gen[s].pc = "loop"
                    /\ tts_generations' = tts_generations + 1
                    /\ Len(gen'[s].generated) = Len(gen[s].generated) + 1]_vars
    /\ [](\A s \in Sessions :
            /\ Cardinality(OkSaves(gen[s].saves)) <= Len(gen[s].generated)
            /\ (Checked(s) /\ gen[s].allowed) =>
                    tts_generations - gen[s].count_at_check <= Len(gen[s].generated))

\* C18's case: the records of an earlier batch are still there after a logout and
\* after the user's voice was deleted.
C18_Witness ==
    /\ tts_generations > 0
    /\ Idle("A")
    /\ last_generated_files["A"] = <<>>
    /\ segments["A"] = <<create_new_segment>>
    /\ clone_ctr > 0
    /\ user_voices = {}

\* C19: when the count read fails, get_user_generation_count returns 0 and
\* check_generation_limit allows every batch of at most 5 segments, and
\* get_user_voice_count returns 0 and handle_voice_cloning's first check does not
\* deny, whatever the persisted counts are.
C19_FailOpen ==
    \A s \in Sessions :
        /\ (Checked(s) /\ gen[s].current_count # gen[s].count_at_check) =>
                /\ gen[s].current_count = 0
                /\ gen[s].allowed <=> Len(segments[s]) <= 5
        /\ (clone[s].pc # "idle" /\ clone[s].voice_count # clone[s].count_at_start) =>
                /\ clone[s].voice_count = 0
                /\ clone[s].result # "denied"

\* C19's case: a batch is allowed with 5 or more records persisted, by a user who
\* got a second voice record past the cap.
C19_Witness ==
    /\ Checked("A")
    /\ gen["A"].current_count = 0
    /\ gen["A"].count_at_check >= 5
    /\ gen["A"].allowed
    /\ Cardinality(user_voices) = 2

====
